---- MODULE Spec2Model ----
(***************************************************************************)
(* Thrustmaster -> Logitech G29 protocol translator (leisrich/thrust).     *)
(*                                                                         *)
(* The module models the translation loop of core/src/lib.rs (the input    *)
(* flow and the output flow as two tokio tasks sharing the translator      *)
(* behind one mutex), the two ports (device/thrustmaster.rs and            *)
(* device/virtual_g29.rs), the FFB parser (protocol.rs), the FFB engine     *)
(* (ffb.rs) and the `run` command of the CLI (cli/src/main.rs).            *)
(*                                                                         *)
(* Numbers: f32 values of the configuration are kept as exact fractions    *)
(* [num, den]; the model draws only fractions whose products with 16-bit   *)
(* integers are exact in f32, so `as i16` is truncation toward zero of the *)
(* exact quotient.                                                         *)
(***************************************************************************)
EXTENDS Integers, Sequences, FiniteSets, TLC

VARIABLES
    config,                \* Config, immutable after ProtocolTranslator::new
    mainPc,                \* run_translator / main: "select", "stopped", "shutdown", "exited"
    runResult,             \* run(): "pending", "dropped" (future dropped by select!) or the Err kind returned
    exitCode,              \* process exit code, "none" until main returns
    inPc,                  \* input task: "tick","lock","wait","read","send","done","cancelled"
    outPc,                 \* output task: "lock","wait","read","send","done","cancelled"
    inResult,              \* Err kind the input task returned, "none" while it runs
    outResult,             \* Err kind the output task returned, "none" while it runs
    lockOwner,             \* holder of Arc<Mutex<ProtocolTranslator>>: "none","input","output"
    lockWaiters,           \* FIFO wait queue of the tokio mutex
    input_receiver_alive,  \* peer end of VirtualG29Device.input_sender
    output_sender_alive,   \* peer end of VirtualG29Device.output_receiver
    outQueue,              \* reports queued in output_receiver
    hostSent,              \* number of reports the host has queued so far
    g29_report,            \* input task local: the translated report awaiting send_input
    readSeq,               \* history: reports read_input returned (Ok(Some))
    sentInput,             \* history: reports passed to send_input
    iforce_commands,       \* output task local: commands of the current batch not yet sent
    batches,               \* history: what translate_effect returned, one entry per descriptor
    ffbCalls,              \* history: commands passed to send_ffb_command
    wheelFrames,           \* history: frames written to the wheel as feature reports
    active_effects,        \* FfbEngine.active_effects: id -> ActiveEffect
    last_update,           \* FfbEngine.last_update
    now,                   \* Instant::now(), in milliseconds
    tmReport,              \* direct call: the input report handed to InputTranslator::translate
    translateResult,       \* direct call: what translate did with it: [tag |-> "Ok", report] or "Panic"
    pidReport,             \* direct call: the output report handed to parse_ffb_effect
    parseResult,           \* direct call: what parse_ffb_effect returned
    framed,                \* direct call: the command handed to build_iforce_packet and its packet
    ffb_effect             \* direct call: the descriptor handed to FfbEngine::translate_effect

portVars == <<input_receiver_alive, output_sender_alive, outQueue, hostSent>>
mainVars == <<mainPc, runResult, exitCode>>
inVars == <<inPc, inResult, g29_report, readSeq, sentInput>>
outVars == <<outPc, outResult, iforce_commands, batches, ffbCalls, wheelFrames>>
lockVars == <<lockOwner, lockWaiters>>
engineVars == <<active_effects, last_update>>
callVars == <<tmReport, translateResult, pidReport, parseResult, framed, ffb_effect>>
vars == <<config, mainVars, inVars, outVars, lockVars, portVars, engineVars, now, callVars>>

(***************************************************************************)
(* Bounds of the model (not program constants).                            *)
(***************************************************************************)
MaxReads == 2        \* full input reports the wheel delivers
MaxHostReports == 2  \* output reports the host queues
MaxTime == 2         \* last instant of the clock, ms

(***************************************************************************)
(* Program constants.                                                      *)
(***************************************************************************)
MaxEffectId == 40         \* protocol.rs: effect_id <= 40
MinFfbReportLen == 8      \* protocol.rs: output.data.len() < 8
InputReportSize == 8      \* thrustmaster.rs: buf = [0u8; 8], bytes_read >= 8

(***************************************************************************)
(* Integer helpers for Rust's casts.                                       *)
(***************************************************************************)
Min(a, b) == IF a < b THEN a ELSE b
Max(a, b) == IF a > b THEN a ELSE b
Clamp(x, lo, hi) == Max(lo, Min(x, hi))
\* truncation toward zero of n / d (d > 0): `as i16` / `as u32` of a float
TruncDiv(n, d) == IF n >= 0 THEN n \div d ELSE -((-n) \div d)
\* `x as u8` of an integer: the low eight bits of the two's complement
AsU8(x) == x % 256
\* `(x >> 8) as u8` of a 16-bit integer
HiU8(x) == ((x % 65536) \div 256) % 256
\* i16::from_le_bytes / u16::from_le_bytes
U16FromLe(lo, hi) == lo + 256 * hi
AsI16(u) == LET w == u % 65536 IN IF w >= 32768 THEN w - 65536 ELSE w
I16FromLe(lo, hi) == AsI16(U16FromLe(lo, hi))
Frac(n, d) == [num |-> n, den |-> d]
\* a * b = q * d + r with 0 <= r < d, for a, b >= 0, computed without leaving 31 bits
RECURSIVE MulDiv(_, _, _)
MulDiv(a, b, d) ==
    IF b = 0 THEN [q |-> 0, r |-> 0]
    ELSE LET h == MulDiv(a, b \div 2, d)
             dq == 2 * h.q + (2 * h.r) \div d
             dr == (2 * h.r) % d
             add == IF b % 2 = 1 THEN a ELSE 0
         IN [q |-> dq + (dr + add) \div d, r |-> (dr + add) % d]

RECURSIVE Flatten(_)
Flatten(ss) == IF ss = <<>> THEN <<>> ELSE Head(ss) \o Flatten(Tail(ss))

RECURSIVE XorBits(_, _, _)
XorBits(a, b, n) ==
    IF n = 0 THEN 0
    ELSE ((a + b) % 2) + 2 * XorBits(a \div 2, b \div 2, n - 1)
Xor8(a, b) == XorBits(a, b, 8)

RECURSIVE XorFold(_, _)
XorFold(acc, bytes) ==
    IF bytes = <<>> THEN acc ELSE XorFold(Xor8(acc, Head(bytes)), Tail(bytes))

(***************************************************************************)
(* Configuration (config.rs).  Init draws `config` from Configs.           *)
(***************************************************************************)
DefaultFfbConfig ==
    [enabled |-> TRUE,
     global_gain |-> Frac(1, 1), spring_gain |-> Frac(1, 1),
     damper_gain |-> Frac(1, 1), friction_gain |-> Frac(1, 1),
     constant_gain |-> Frac(1, 1), periodic_gain |-> Frac(1, 1),
     ramp_gain |-> Frac(1, 1),
     max_force |-> Frac(5, 2),
     update_rate_hz |-> 1000]

DefaultInputConfig ==
    [steering_deadzone |-> Frac(1, 50),
     steering_multiplier |-> Frac(1, 1),
     throttle_curve |-> [kind |-> "Linear"],
     brake_curve |-> [kind |-> "Linear"],
     clutch_curve |-> [kind |-> "Linear"],
     button_mapping |-> [i \in 0..13 |-> i]]

DefaultConfig == [input_config |-> DefaultInputConfig, ffb_config |-> DefaultFfbConfig]

\* the configurations the loop is started with: the default, FFB switched
\* off, and non-default pedal curves
Configs ==
    { DefaultConfig,
      [DefaultConfig EXCEPT !.ffb_config.enabled = FALSE],
      [DefaultConfig EXCEPT !.input_config.throttle_curve = [kind |-> "Squared"],
                            !.input_config.brake_curve = [kind |-> "Cubed"]] }

(***************************************************************************)
(* Input translator (protocol.rs).                                         *)
(***************************************************************************)
RECURSIVE OrBits(_, _, _)
OrBits(a, b, n) ==
    IF n = 0 THEN 0
    ELSE (IF a % 2 = 1 \/ b % 2 = 1 THEN 1 ELSE 0)
         + 2 * OrBits(a \div 2, b \div 2, n - 1)
Or32(a, b) == OrBits(a, b, 32)
BitSet(x, k) == (x \div (2 ^ k)) % 2 = 1

RECURSIVE SumPow2(_)
SumPow2(S) ==
    IF S = {} THEN 0
    ELSE LET v == CHOOSE x \in S : TRUE IN (2 ^ v) + SumPow2(S \ {v})

\* thrustmaster.rs parse_input_report: data is the 8-byte buffer
parse_input_report(data) ==
    [steering |-> I16FromLe(data[1], data[2]),
     throttle |-> data[3],
     brake |-> data[4],
     clutch |-> data[5],
     buttons |-> U16FromLe(data[6], data[7]),
     dpad |-> data[8] % 16]

Abs(x) == IF x < 0 THEN -x ELSE x

\* mutant: the deadzone test is left out and every value is rescaled
process_steering_no_deadzone(cfg, raw_steering) ==
    LET dz == cfg.steering_deadzone
        m == cfg.steering_multiplier
        offNum == IF raw_steering > 0
                  THEN raw_steering * dz.den - dz.num * 32767
                  ELSE raw_steering * dz.den + dz.num * 32767
        g29_value ==
            IF dz.num = dz.den
            THEN IF offNum * m.num = 0 THEN 0
                 ELSE IF offNum * m.num > 0 THEN 32767 ELSE -32768
            ELSE Clamp(TruncDiv(offNum * m.num, (dz.den - dz.num) * m.den),
                       -32768, 32767)
    IN Clamp(g29_value + 32768, 0, 65535)

\* protocol.rs process_steering; the result is the u16 that translate stores
process_steering(cfg, raw_steering) ==
    LET dz == cfg.steering_deadzone
        m == cfg.steering_multiplier
        \* |normalized| < deadzone, normalized = raw / 32767.0
        inDeadzone == Abs(raw_steering) * dz.den < dz.num * 32767
        \* numerator of normalized -/+ deadzone, over 32767 * dz.den
        offNum == IF raw_steering > 0
                  THEN raw_steering * dz.den - dz.num * 32767
                  ELSE raw_steering * dz.den + dz.num * 32767
        g29_value ==
            IF inDeadzone THEN 0
            ELSE IF dz.num = dz.den
                 \* division by 1.0 - deadzone = 0.0: NaN casts to 0, +-inf saturates
                 THEN IF offNum * m.num = 0 THEN 0
                      ELSE IF offNum * m.num > 0 THEN 32767 ELSE -32768
                 ELSE Clamp(TruncDiv(offNum * m.num, (dz.den - dz.num) * m.den),
                            -32768, 32767)
    IN Clamp(g29_value + 32768, 0, 65535)

\* protocol.rs apply_pedal_curve; Custom tables hold fractions, len >= 1
apply_pedal_curve(raw_value, curve) ==
    CASE curve.kind = "Linear" -> TruncDiv(raw_value * 1023, 255)
      [] curve.kind = "Squared" -> TruncDiv(raw_value * raw_value * 1023, 255 * 255)
      [] curve.kind = "Cubed" ->
            MulDiv(raw_value * raw_value * raw_value, 1023, 255 * 255 * 255).q
      [] curve.kind = "Custom" ->
            LET table == curve.table
                last == Len(table) - 1
                index == (raw_value * last) \div 255
                f == raw_value * last - 255 * index
            IN IF index >= last
               THEN Max(0, TruncDiv(table[Len(table)].num * 1023, table[Len(table)].den))
               ELSE LET a == table[index + 1]
                        b == table[index + 2]
                    IN Max(0, TruncDiv((a.num * b.den * (255 - f) + b.num * a.den * f) * 1023,
                                       a.den * b.den * 255))

\* protocol.rs map_buttons in a build without overflow checks: `1 << n` on
\* u16 takes the shift amount modulo 16, on u32 modulo 32
map_buttons(cfg, buttons) ==
    SumPow2({ cfg.button_mapping[p] % 32 :
                p \in { q \in DOMAIN cfg.button_mapping : BitSet(buttons, q % 16) } })

\* protocol.rs map_buttons in a build with overflow checks: `1 << thrustmaster_btn`
\* (u16) is evaluated for every entry and panics from 16 on, `1 << g29_btn`
\* (u32) is evaluated for the entries whose physical bit is set and panics
\* from 32 on
map_buttons_overflows(cfg, buttons) ==
    \E p \in DOMAIN cfg.button_mapping :
        p >= 16 \/ (BitSet(buttons, p) /\ cfg.button_mapping[p] >= 32)

\* protocol.rs apply_pedal_curve on an empty Custom table: table.len() - 1
\* panics with overflow checks and wraps to usize::MAX without, and then
\* table[index] or table[table.len() - 1] is out of bounds on the empty Vec
apply_pedal_curve_panics(curve) == curve.kind = "Custom" /\ Len(curve.table) = 0

\* protocol.rs include_dpad
include_dpad(buttons, dpad) ==
    LET dpad_value == IF dpad < 8 THEN dpad ELSE 8
    IN Or32(buttons, dpad_value * (2 ^ 24))

\* protocol.rs InputTranslator::translate
translate(cfg, input) ==
    [report_id |-> 1,
     steering |-> process_steering(cfg, input.steering),
     throttle |-> apply_pedal_curve(input.throttle, cfg.throttle_curve) % 65536,
     brake |-> apply_pedal_curve(input.brake, cfg.brake_curve) % 65536,
     clutch |-> apply_pedal_curve(input.clutch, cfg.clutch_curve) % 65536,
     buttons |-> include_dpad(map_buttons(cfg, input.buttons), input.dpad),
     unused |-> <<0, 0, 0, 0>>]

\* InputTranslator::translate as a call that may abort: the report it
\* returns, or the panic of one of its steps; overflow_checks is the build's
\* setting of the integer overflow checks
translate_result(cfg, input, overflow_checks) ==
    IF \/ apply_pedal_curve_panics(cfg.throttle_curve)
       \/ apply_pedal_curve_panics(cfg.brake_curve)
       \/ apply_pedal_curve_panics(cfg.clutch_curve)
       \/ overflow_checks /\ map_buttons_overflows(cfg, input.buttons)
    THEN [tag |-> "Panic"]
    ELSE [tag |-> "Ok", report |-> translate(cfg, input)]

(***************************************************************************)
(* FFB parser (protocol.rs).  A G29OutputReport is [report_id, data].      *)
(* Results are [tag, ...]: "None", "Some" (effect) or "Err" (err).         *)
(***************************************************************************)
SubSeqFrom(s, i) == SubSeq(s, i, Len(s))

\* protocol.rs parse_effect_by_type; data is output.data[2..]
parse_effect_by_type(effect_id, effect_type, data) ==
    CASE effect_type = 1 ->
            IF Len(data) < 4 THEN [tag |-> "Err", err |-> "InvalidReport"]
            ELSE [tag |-> "Some",
                  effect |-> [id |-> effect_id,
                              effect_type |-> [kind |-> "Constant",
                                               magnitude |-> I16FromLe(data[1], data[2]),
                                               duration |-> U16FromLe(data[3], data[4])],
                              gain |-> 255]]
      [] effect_type \in 3..7 ->
            IF Len(data) < 6 THEN [tag |-> "Err", err |-> "InvalidReport"]
            ELSE [tag |-> "Some",
                  effect |-> [id |-> effect_id,
                              effect_type |-> [kind |-> "Periodic",
                                               magnitude |-> U16FromLe(data[1], data[2]),
                                               period |-> U16FromLe(data[3], data[4]),
                                               phase |-> U16FromLe(data[5], data[6]),
                                               waveform |->
                                                  CASE effect_type = 3 -> "Square"
                                                    [] effect_type = 4 -> "Sine"
                                                    [] effect_type = 5 -> "Triangle"
                                                    [] effect_type = 6 -> "SawtoothUp"
                                                    [] effect_type = 7 -> "SawtoothDown"],
                              gain |-> 255]]
      [] effect_type \in 8..11 ->
            IF Len(data) < 4 THEN [tag |-> "Err", err |-> "InvalidReport"]
            ELSE [tag |-> "Some",
                  effect |-> [id |-> effect_id,
                              effect_type |-> [kind |-> "Condition",
                                               positive_coefficient |-> I16FromLe(data[1], data[2]),
                                               negative_coefficient |-> I16FromLe(data[3], data[4]),
                                               condition_type |->
                                                  CASE effect_type = 8 -> "Spring"
                                                    [] effect_type = 9 -> "Damper"
                                                    [] effect_type = 10 -> "Inertia"
                                                    [] effect_type = 11 -> "Friction"],
                              gain |-> 255]]
      [] OTHER -> [tag |-> "Err", err |-> "FfbError"]

\* mutant: the upper limit of the accept filter is off by one
AcceptedEffectIdOffByOne(effect_id) == effect_id > 0 /\ effect_id <= MaxEffectId + 1

\* protocol.rs parse_ffb_effect: the accept filter on the effect block index
AcceptedEffectId(effect_id) == effect_id > 0 /\ effect_id <= MaxEffectId

\* protocol.rs OutputTranslator::parse_ffb_effect
parse_ffb_effect(output) ==
    IF output.report_id # 1 \/ Len(output.data) = 0 THEN [tag |-> "None"]
    ELSE IF AcceptedEffectId(output.data[1])
         THEN IF Len(output.data) < MinFfbReportLen
              THEN [tag |-> "Err", err |-> "InvalidReport"]
              ELSE parse_effect_by_type(output.data[1], output.data[2],
                                        SubSeqFrom(output.data, 3))
         ELSE [tag |-> "None"]

(***************************************************************************)
(* FFB engine (ffb.rs).  An IforceCommand is [command_id, data].           *)
(***************************************************************************)
\* ffb.rs apply_gain
apply_gain(ffb, value, gain) ==
    Clamp(TruncDiv(value * gain.num * ffb.global_gain.num,
                   gain.den * ffb.global_gain.den), -32767, 32767)

\* ffb.rs scale_magnitude: force_ratio = max_force / 2.5
scale_magnitude(ffb, magnitude) ==
    Clamp(TruncDiv(magnitude * 2 * ffb.max_force.num, 5 * ffb.max_force.den),
          -32767, 32767)

\* ffb.rs translate_constant_effect
translate_constant_effect(ffb, effect_id, effect) ==
    LET magnitude == apply_gain(ffb, effect.magnitude, ffb.constant_gain)
        scaled_magnitude == scale_magnitude(ffb, magnitude)
    IN << [command_id |-> 65,
           data |-> << effect_id,
                       AsU8(scaled_magnitude), HiU8(scaled_magnitude),
                       AsU8(effect.duration), HiU8(effect.duration) >>] >>

\* mutant: the waveform ids of Sine and Square are exchanged
translate_periodic_effect_swapped(ffb, effect_id, effect) ==
    LET magnitude == apply_gain(ffb, AsI16(effect.magnitude), ffb.periodic_gain)
        scaled_magnitude == scale_magnitude(ffb, magnitude)
        waveform_id == CASE effect.waveform = "Sine" -> 2
                         [] effect.waveform = "Square" -> 1
                         [] effect.waveform = "Triangle" -> 3
                         [] effect.waveform = "SawtoothUp" -> 4
                         [] effect.waveform = "SawtoothDown" -> 5
    IN << [command_id |-> 66,
           data |-> << effect_id, waveform_id,
                       AsU8(scaled_magnitude), HiU8(scaled_magnitude),
                       AsU8(effect.period), HiU8(effect.period),
                       AsU8(effect.phase), HiU8(effect.phase) >>] >>

\* ffb.rs translate_periodic_effect
translate_periodic_effect(ffb, effect_id, effect) ==
    LET magnitude == apply_gain(ffb, AsI16(effect.magnitude), ffb.periodic_gain)
        scaled_magnitude == scale_magnitude(ffb, magnitude)
        waveform_id == CASE effect.waveform = "Sine" -> 1
                         [] effect.waveform = "Square" -> 2
                         [] effect.waveform = "Triangle" -> 3
                         [] effect.waveform = "SawtoothUp" -> 4
                         [] effect.waveform = "SawtoothDown" -> 5
    IN << [command_id |-> 66,
           data |-> << effect_id, waveform_id,
                       AsU8(scaled_magnitude), HiU8(scaled_magnitude),
                       AsU8(effect.period), HiU8(effect.period),
                       AsU8(effect.phase), HiU8(effect.phase) >>] >>

\* ffb.rs translate_condition_effect
translate_condition_effect(ffb, effect_id, effect) ==
    LET gain == CASE effect.condition_type = "Spring" -> ffb.spring_gain
                  [] effect.condition_type = "Damper" -> ffb.damper_gain
                  [] effect.condition_type = "Inertia" -> Frac(1, 1)
                  [] effect.condition_type = "Friction" -> ffb.friction_gain
        pos_coeff == apply_gain(ffb, effect.positive_coefficient, gain)
        neg_coeff == apply_gain(ffb, effect.negative_coefficient, gain)
        condition_id == CASE effect.condition_type = "Spring" -> 1
                          [] effect.condition_type = "Damper" -> 2
                          [] effect.condition_type = "Inertia" -> 3
                          [] effect.condition_type = "Friction" -> 4
    IN << [command_id |-> 67,
           data |-> << effect_id, condition_id,
                       AsU8(pos_coeff), HiU8(pos_coeff),
                       AsU8(neg_coeff), HiU8(neg_coeff) >>] >>

\* ffb.rs translate_ramp_effect
translate_ramp_effect(ffb, effect_id, effect) ==
    LET start_magnitude == apply_gain(ffb, effect.start_magnitude, ffb.ramp_gain)
        end_magnitude == apply_gain(ffb, effect.end_magnitude, ffb.ramp_gain)
    IN << [command_id |-> 68,
           data |-> << effect_id,
                       AsU8(start_magnitude), HiU8(start_magnitude),
                       AsU8(end_magnitude), HiU8(end_magnitude),
                       AsU8(effect.duration), HiU8(effect.duration) >>] >>

\* mutant: an entry that is already there is kept (entry().or_insert)
MapInsertIfAbsent(table, key, value) ==
    [k \in DOMAIN table \cup {key} |-> IF k \in DOMAIN table THEN table[k] ELSE value]

\* HashMap::insert
MapInsert(table, key, value) ==
    [k \in DOMAIN table \cup {key} |-> IF k = key THEN value ELSE table[k]]
\* HashMap::retain
MapRetain(table, Keep(_, _)) ==
    [k \in { j \in DOMAIN table : Keep(j, table[j]) } |-> table[k]]
EmptyMap == [k \in {} |-> 0]

\* mutant: translate_effect without the check of config.enabled
translate_effect_always(ffb, table, instant, effect) ==
    [commands |->
        CASE effect.effect_type.kind = "Constant" ->
                translate_constant_effect(ffb, effect.id, effect.effect_type)
          [] effect.effect_type.kind = "Periodic" ->
                translate_periodic_effect(ffb, effect.id, effect.effect_type)
          [] effect.effect_type.kind = "Condition" ->
                translate_condition_effect(ffb, effect.id, effect.effect_type)
          [] effect.effect_type.kind = "Ramp" ->
                translate_ramp_effect(ffb, effect.id, effect.effect_type),
     active_effects |->
        MapInsert(table, effect.id,
                  [effect |-> effect, start_time |-> instant, enabled |-> TRUE])]

\* ffb.rs FfbEngine::translate_effect: the commands returned and the table left
translate_effect(ffb, table, instant, effect) ==
    IF ~ffb.enabled THEN [commands |-> <<>>, active_effects |-> table]
    ELSE [commands |->
            CASE effect.effect_type.kind = "Constant" ->
                    translate_constant_effect(ffb, effect.id, effect.effect_type)
              [] effect.effect_type.kind = "Periodic" ->
                    translate_periodic_effect(ffb, effect.id, effect.effect_type)
              [] effect.effect_type.kind = "Condition" ->
                    translate_condition_effect(ffb, effect.id, effect.effect_type)
              [] effect.effect_type.kind = "Ramp" ->
                    translate_ramp_effect(ffb, effect.id, effect.effect_type),
          active_effects |->
            MapInsert(table, effect.id,
                      [effect |-> effect, start_time |-> instant, enabled |-> TRUE])]

\* mutant: an effect is kept until its age exceeds the duration
NotExpiredInclusive(instant, active) ==
    IF active.effect.effect_type.kind = "Constant"
       /\ active.effect.effect_type.duration > 0
    THEN instant - active.start_time <= active.effect.effect_type.duration
    ELSE TRUE

\* ffb.rs update_active_effects, the retain closure: TRUE keeps the entry
NotExpired(instant, active) ==
    IF active.effect.effect_type.kind = "Constant"
       /\ active.effect.effect_type.duration > 0
    THEN instant - active.start_time < active.effect.effect_type.duration
    ELSE TRUE

\* ffb.rs FfbEngine::update_active_effects; update_periodic_effect returns
\* Ok(None) for every Periodic entry, so no command is pushed
update_active_effects(ffb, table, last, instant) ==
    IF instant - last < 1000 \div ffb.update_rate_hz
    THEN [commands |-> <<>>, active_effects |-> table, last_update |-> last]
    ELSE LET Keep(k, e) == NotExpired(instant, e)
         IN [commands |-> <<>>,
             active_effects |-> MapRetain(table, Keep),
             last_update |-> instant]

(***************************************************************************)
(* Physical wheel port (device/thrustmaster.rs).                           *)
(***************************************************************************)
\* mutant: the checksum leaves out the length byte
build_iforce_packet_unclosed(command) ==
    LET packet == << (Len(command.data) + 2) % 256, command.command_id >> \o command.data
    IN Append(packet, XorFold(0, Tail(packet)))

\* thrustmaster.rs build_iforce_packet
build_iforce_packet(command) ==
    LET packet == << (Len(command.data) + 2) % 256, command.command_id >> \o command.data
    IN Append(packet, XorFold(0, packet))

(***************************************************************************)
(* Virtual G29 port (device/virtual_g29.rs).                               *)
(***************************************************************************)
\* virtual_g29.rs read_output: try_recv on output_receiver
read_output(queue, sender_alive) ==
    IF queue # <<>> THEN [tag |-> "Some", report |-> Head(queue)]
    ELSE IF sender_alive THEN [tag |-> "None"]
         ELSE [tag |-> "Err", err |-> "ProtocolError"]

\* virtual_g29.rs send_input: the backend stub accepts the report, then
\* input_sender.send fails when the receiver is gone
send_input(receiver_alive) ==
    IF receiver_alive THEN "Ok" ELSE "ProtocolError"

\* thrustmaster.rs read_input on what HidDevice::read gave: Err, or Ok(n)
\* with the buffer
read_input(res) ==
    IF res.kind = "Err" THEN [tag |-> "Err", err |-> "HidError"]
    ELSE IF res.n = 0 THEN [tag |-> "None"]
    ELSE IF res.n >= InputReportSize
         THEN [tag |-> "Some", report |-> parse_input_report(res.buf)]
         ELSE [tag |-> "Err", err |-> "InvalidReport"]

(***************************************************************************)
(* The environment's inputs.                                               *)
(***************************************************************************)
\* 8-byte input reports of the wheel: full right with pedals and buttons 0
\* and 2; full left with button 13 and an out-of-range D-pad
WheelBuffers ==
    { <<255, 127, 255, 128, 0, 5, 0, 2>>,
      <<0, 128, 128, 255, 64, 0, 32, 15>> }
ZeroBuffer == <<0, 0, 0, 0, 0, 0, 0, 0>>

\* what HidDevice::read can give: an error, no data, a short read (1 or 7
\* bytes), or a full report
DeviceReads ==
    { [kind |-> "Err", n |-> 0, buf |-> ZeroBuffer] }
    \cup { [kind |-> "Ok", n |-> n, buf |-> ZeroBuffer] : n \in {0, 1, 7} }
    \cup { [kind |-> "Ok", n |-> InputReportSize, buf |-> b] : b \in WheelBuffers }

\* output reports the host sends: a Constant with duration 1 ms for effect 1,
\* a Sine for effect 2, a report shorter than 8 bytes, and an effect block
\* index of 0
HostReports ==
    { [report_id |-> 1, data |-> <<1, 1, 244, 1, 1, 0, 0, 0>>],
      [report_id |-> 1, data |-> <<2, 4, 100, 0, 50, 0, 180, 0>>],
      [report_id |-> 1, data |-> <<1, 1, 244, 1>>],
      [report_id |-> 1, data |-> <<0, 1, 244, 1, 1, 0, 0, 0>>] }

\* output reports given to the parser and the engine called directly: the
\* host's, the Ramp type code, block indices 40, 41 and 255, a Constant that
\* never expires, a Spring, and another report id
EngineReports ==
    HostReports \cup
    { [report_id |-> 1, data |-> <<1, 2, 0, 0, 0, 0, 0, 0>>],
      [report_id |-> 1, data |-> <<40, 1, 12, 254, 0, 0, 0, 0>>],
      [report_id |-> 1, data |-> <<41, 1, 244, 1, 1, 0, 0, 0>>],
      [report_id |-> 1, data |-> <<255, 1, 244, 1, 1, 0, 0, 0>>],
      [report_id |-> 1, data |-> <<3, 8, 16, 39, 240, 216, 0, 0>>],
      [report_id |-> 2, data |-> <<1, 1, 244, 1, 1, 0, 0, 0>>] }

(***************************************************************************)
(* The translator mutex (tokio::sync::Mutex: FIFO, handed to the first     *)
(* waiter on release).                                                     *)
(***************************************************************************)
\* mutant: the mutex becomes free and the waiter at the head is not woken
ReleasedOwnerLostWakeup == "none"

\* the owner after the guard is dropped
ReleasedOwner == IF lockWaiters = <<>> THEN "none" ELSE Head(lockWaiters)
ReleasedWaiters == IF lockWaiters = <<>> THEN <<>> ELSE Tail(lockWaiters)
Release == lockOwner' = ReleasedOwner /\ lockWaiters' = ReleasedWaiters
WithoutWaiter(task) == SelectSeq(lockWaiters, LAMBDA w : w # task)
\* a task dropped while it owns the mutex or waits for it
Abandon(task) ==
    IF lockOwner = task THEN Release
    ELSE lockOwner' = lockOwner /\ lockWaiters' = WithoutWaiter(task)

\* the tokio runtime polls tasks until main returns and the runtime is dropped
RuntimeAlive == mainPc \in {"select", "stopped"}

(***************************************************************************)
(* Input flow: lib.rs run_input_translation_task.                          *)
(***************************************************************************)
\* interval.tick().await completes
InTick ==
    /\ inPc = "tick"
    /\ RuntimeAlive
    /\ inPc' = "lock"
    /\ UNCHANGED <<callVars, config, mainVars, inResult, g29_report, readSeq, sentInput,
                   outVars, lockVars, portVars, engineVars, now>>

\* translator.lock().await: taken at once when free, else queued
InLock ==
    /\ inPc = "lock"
    /\ IF lockOwner = "none"
       THEN lockOwner' = "input" /\ inPc' = "read" /\ UNCHANGED lockWaiters
       ELSE lockWaiters' = Append(lockWaiters, "input") /\ inPc' = "wait"
            /\ UNCHANGED lockOwner
    /\ UNCHANGED <<callVars, config, mainVars, inResult, g29_report, readSeq, sentInput,
                   outVars, portVars, engineVars, now>>

\* the waiting task is woken with the mutex handed to it
InWake ==
    /\ inPc = "wait"
    /\ lockOwner = "input"
    /\ RuntimeAlive
    /\ inPc' = "read"
    /\ UNCHANGED <<callVars, config, mainVars, inResult, g29_report, readSeq, sentInput,
                   outVars, lockVars, portVars, engineVars, now>>

\* mutant: a report equal to the last one published is coalesced with it
RecordSendInputCoalesced(history, report) ==
    IF history # <<>> /\ history[Len(history)] = report THEN history
    ELSE Append(history, report)

\* the history of send_input calls after one more call
RecordSendInput(history, report) == Append(history, report)

\* t.thrustmaster.read_input().await? and, on a report, translate
InRead ==
    /\ inPc = "read"
    /\ \E res \in DeviceReads :
          LET r == read_input(res) IN
          /\ r.tag = "Some" => Len(readSeq) < MaxReads
          /\ CASE r.tag = "None" ->
                    /\ inPc' = "tick"
                    /\ Release
                    /\ UNCHANGED <<inResult, g29_report, readSeq>>
               [] r.tag = "Err" ->
                    /\ inPc' = "done"
                    /\ inResult' = r.err
                    /\ Release
                    /\ UNCHANGED <<g29_report, readSeq>>
               [] r.tag = "Some" ->
                    /\ inPc' = "send"
                    /\ readSeq' = Append(readSeq, r.report)
                    /\ g29_report' = << translate(config.input_config, r.report) >>
                    /\ UNCHANGED <<inResult, lockVars>>
    /\ UNCHANGED <<callVars, config, mainVars, sentInput, outVars, portVars, engineVars, now>>

\* t.virtual_g29.send_input(g29_report).await?
InSend ==
    /\ inPc = "send"
    /\ sentInput' = RecordSendInput(sentInput, Head(g29_report))
    /\ g29_report' = <<>>
    /\ Release
    /\ IF send_input(input_receiver_alive) = "Ok"
       THEN inPc' = "tick" /\ UNCHANGED inResult
       ELSE inPc' = "done" /\ inResult' = send_input(input_receiver_alive)
    /\ UNCHANGED <<callVars, config, mainVars, readSeq, outVars, portVars, engineVars, now>>

(***************************************************************************)
(* Output flow: lib.rs run_output_translation_task.                        *)
(***************************************************************************)
\* translator.lock().await at the top of the loop
OutLock ==
    /\ outPc = "lock"
    /\ IF lockOwner = "none"
       THEN lockOwner' = "output" /\ outPc' = "read" /\ UNCHANGED lockWaiters
       ELSE lockWaiters' = Append(lockWaiters, "output") /\ outPc' = "wait"
            /\ UNCHANGED lockOwner
    /\ UNCHANGED <<callVars, config, mainVars, inVars, outResult, iforce_commands, batches,
                   ffbCalls, wheelFrames, portVars, engineVars, now>>

OutWake ==
    /\ outPc = "wait"
    /\ lockOwner = "output"
    /\ RuntimeAlive
    /\ outPc' = "read"
    /\ UNCHANGED <<callVars, config, mainVars, inVars, outResult, iforce_commands, batches,
                   ffbCalls, wheelFrames, lockVars, portVars, engineVars, now>>

\* the output task returns Err(err): the guard is dropped with it
OutFail(err) ==
    /\ outPc' = "done"
    /\ outResult' = err
    /\ iforce_commands' = <<>>
    /\ Release

\* the iteration ends: the guard is dropped and the loop starts over
OutLoop ==
    /\ outPc' = "lock"
    /\ iforce_commands' = <<>>
    /\ Release
    /\ UNCHANGED outResult

\* read_output().await?, parse_ffb_effect(..)? and translate_effect(..)?
OutRead ==
    /\ outPc = "read"
    /\ LET r == read_output(outQueue, output_sender_alive) IN
       CASE r.tag = "Err" ->
                /\ OutFail(r.err)
                /\ UNCHANGED <<outQueue, batches, engineVars>>
         [] r.tag = "None" ->
                /\ OutLoop
                /\ UNCHANGED <<outQueue, batches, engineVars>>
         [] r.tag = "Some" ->
                /\ outQueue' = Tail(outQueue)
                /\ LET p == parse_ffb_effect(r.report) IN
                   CASE p.tag = "Err" ->
                            /\ OutFail(p.err)
                            /\ UNCHANGED <<batches, engineVars>>
                     [] p.tag = "None" ->
                            /\ OutLoop
                            /\ UNCHANGED <<batches, engineVars>>
                     [] p.tag = "Some" ->
                            LET t == translate_effect(config.ffb_config, active_effects,
                                                      now, p.effect) IN
                            /\ active_effects' = t.active_effects
                            /\ batches' = Append(batches, t.commands)
                            /\ UNCHANGED last_update
                            /\ IF t.commands = <<>>
                               THEN OutLoop
                               ELSE /\ outPc' = "send"
                                    /\ iforce_commands' = t.commands
                                    /\ UNCHANGED <<outResult, lockVars>>
    /\ UNCHANGED <<callVars, config, mainVars, inVars, ffbCalls, wheelFrames,
                   input_receiver_alive, output_sender_alive, hostSent, now>>

\* mutant: the newest command overtakes the ones sent before it
RecordFfbCallFirst(history, command) == <<command>> \o history

\* the history of send_ffb_command calls after one more call
RecordFfbCall(history, command) == Append(history, command)

\* one turn of `for command in iforce_commands`: send_ffb_command(command).await?
\* HidDevice::send_feature_report succeeds or fails
OutSend ==
    /\ outPc = "send"
    /\ ffbCalls' = RecordFfbCall(ffbCalls, Head(iforce_commands))
    /\ \E sent \in BOOLEAN :
          IF sent
          THEN /\ wheelFrames' = Append(wheelFrames, build_iforce_packet(Head(iforce_commands)))
               /\ IF Tail(iforce_commands) = <<>>
                  THEN OutLoop
                  ELSE /\ iforce_commands' = Tail(iforce_commands)
                       /\ UNCHANGED <<outPc, outResult, lockVars>>
          ELSE /\ OutFail("HidError")
               /\ UNCHANGED wheelFrames
    /\ UNCHANGED <<callVars, config, mainVars, inVars, batches, portVars, engineVars, now>>

(***************************************************************************)
(* The host behind the virtual port, and the clock.                        *)
(***************************************************************************)
HostSendOutput ==
    /\ output_sender_alive
    /\ hostSent < MaxHostReports
    /\ \E r \in HostReports : outQueue' = Append(outQueue, r)
    /\ hostSent' = hostSent + 1
    /\ UNCHANGED <<callVars, config, mainVars, inVars, outVars, lockVars,
                   input_receiver_alive, output_sender_alive, engineVars, now>>

Tick ==
    /\ now < MaxTime
    /\ now' = now + 1
    /\ UNCHANGED <<callVars, config, mainVars, inVars, outVars, lockVars, portVars, engineVars>>

(***************************************************************************)
(* run() (lib.rs) and the `run` command (cli/src/main.rs).                 *)
(***************************************************************************)
\* mutant: run() resumes as soon as either task has finished
JoinReadyEither == inPc = "done" \/ outPc = "done"

\* tokio::join!(input_task, output_task) completes
JoinReady == inPc = "done" /\ outPc = "done"

\* lib.rs 72-73: input_result ...??; output_result ...??; Ok(())
run_result(input_result, output_result) ==
    IF input_result # "Ok" THEN input_result
    ELSE IF output_result # "Ok" THEN output_result ELSE "Ok"

\* select!: the run() arm; the error is logged
RunReturn ==
    /\ mainPc = "select"
    /\ JoinReady
    /\ runResult' = run_result(inResult, outResult)
    /\ mainPc' = "stopped"
    /\ UNCHANGED <<callVars, config, exitCode, inVars, outVars, lockVars, portVars, engineVars, now>>

\* select!: the ctrl_c arm; the run() future and its JoinHandles are dropped,
\* which detaches the two tasks
CtrlC ==
    /\ mainPc = "select"
    /\ runResult' = "dropped"
    /\ mainPc' = "stopped"
    /\ UNCHANGED <<callVars, config, exitCode, inVars, outVars, lockVars, portVars, engineVars, now>>

\* run_translator returns Ok(()), main returns it, the runtime shuts down
MainReturn ==
    /\ mainPc = "stopped"
    /\ mainPc' = "shutdown"
    /\ exitCode' = 0
    /\ UNCHANGED <<callVars, config, runResult, inVars, outVars, lockVars, portVars, engineVars, now>>

\* runtime shutdown drops the input task where it is suspended
InCancel ==
    /\ mainPc = "shutdown"
    /\ inPc \in {"tick", "wait"}
    /\ inPc' = "cancelled"
    /\ Abandon("input")
    /\ UNCHANGED <<callVars, config, mainVars, inResult, g29_report, readSeq, sentInput,
                   outVars, portVars, engineVars, now>>

\* runtime shutdown drops the output task at a lock().await where it yielded
\* (queued for the translator, or out of cooperative budget before
\* translator.lock, output_receiver.lock or device.lock)
OutCancel ==
    /\ mainPc = "shutdown"
    /\ outPc \in {"lock", "wait", "read", "send"}
    /\ outPc' = "cancelled"
    /\ iforce_commands' = <<>>
    /\ Abandon("output")
    /\ UNCHANGED <<callVars, config, mainVars, inVars, outResult, batches, ffbCalls, wheelFrames,
                   portVars, engineVars, now>>

ProcessExit ==
    /\ mainPc = "shutdown"
    /\ inPc \in {"done", "cancelled"}
    /\ outPc \in {"done", "cancelled"}
    /\ mainPc' = "exited"
    /\ UNCHANGED <<callVars, config, runResult, exitCode, inVars, outVars, lockVars, portVars,
                   engineVars, now>>

(***************************************************************************)
(* The parser and the engine called directly (their public functions).     *)
(***************************************************************************)
EngineProcess ==
    /\ \E report \in EngineReports :
          LET p == parse_ffb_effect(report) IN
          /\ p.tag = "Some"
          /\ LET t == translate_effect(config.ffb_config, active_effects, now, p.effect) IN
             /\ active_effects' = t.active_effects
             /\ iforce_commands' = t.commands
    /\ UNCHANGED <<callVars, config, mainVars, inVars, outPc, outResult, batches, ffbCalls,
                   wheelFrames, lockVars, portVars, last_update, now>>

EngineUpdate ==
    /\ LET u == update_active_effects(config.ffb_config, active_effects, last_update, now) IN
       /\ active_effects' = u.active_effects
       /\ last_update' = u.last_update
       /\ iforce_commands' = u.commands
    /\ UNCHANGED <<callVars, config, mainVars, inVars, outPc, outResult, batches, ffbCalls,
                   wheelFrames, lockVars, portVars, now>>

(***************************************************************************)
(* InputTranslator::translate called directly.                             *)
(***************************************************************************)
CustomCurve(table) == [kind |-> "Custom", table |-> table]

\* steering set-ups: no deadzone; deadzone 0.5 with a multiplier that pushes
\* past full lock; a multiplier below 1; deadzone 0.99; deadzone 1.0
SteeringConfigs ==
    { [DefaultInputConfig EXCEPT !.steering_deadzone = Frac(0, 1)],
      [DefaultInputConfig EXCEPT !.steering_deadzone = Frac(1, 2),
                                 !.steering_multiplier = Frac(3, 1)],
      [DefaultInputConfig EXCEPT !.steering_multiplier = Frac(1, 2)],
      [DefaultInputConfig EXCEPT !.steering_deadzone = Frac(99, 100)],
      [DefaultInputConfig EXCEPT !.steering_deadzone = Frac(1, 1)] }

\* input configurations the type InputConfig admits: the default; Squared
\* and Cubed curves; Custom tables of 2, 1 and 3 points; an empty Custom
\* table; a Custom table with a value above 1.0; button maps with a virtual
\* bit in 24..31, with a physical bit >= 16, with a virtual bit >= 32, and
\* a partial map with two physical bits on one virtual bit
InputConfigs ==
    { DefaultInputConfig,
      [DefaultInputConfig EXCEPT !.throttle_curve = [kind |-> "Squared"],
                                 !.brake_curve = [kind |-> "Cubed"]],
      [DefaultInputConfig EXCEPT
          !.throttle_curve = CustomCurve(<<Frac(0, 1), Frac(1, 1)>>),
          !.brake_curve = CustomCurve(<<Frac(1, 2)>>),
          !.clutch_curve = CustomCurve(<<Frac(0, 1), Frac(1, 4), Frac(1, 1)>>)],
      [DefaultInputConfig EXCEPT !.throttle_curve = CustomCurve(<<>>)],
      [DefaultInputConfig EXCEPT !.brake_curve = CustomCurve(<<Frac(0, 1), Frac(2, 1)>>)],
      [DefaultInputConfig EXCEPT !.button_mapping = (0 :> 24) @@ (1 :> 5)],
      [DefaultInputConfig EXCEPT !.button_mapping = (16 :> 3) @@ (2 :> 7)],
      [DefaultInputConfig EXCEPT !.button_mapping = (2 :> 36) @@ (0 :> 0)],
      [DefaultInputConfig EXCEPT !.button_mapping = (0 :> 7) @@ (3 :> 0) @@ (5 :> 7)] }
    \cup SteeringConfigs

TranslateConfigs == { [DefaultConfig EXCEPT !.input_config = c] : c \in InputConfigs }

\* input reports handed to translate: the steering extremes and centre,
\* pedals from released to floored, button bitfields from none to all, and
\* every kind of D-pad nibble
\* raw steering: both extremes, -32767, the centre, values inside the
\* default deadzone (|r| <= 655) and just outside it, and just under half lock
SteeringValues == {-32768, -32767, -656, -655, 0, 100, 655, 656, 16383, 32767}
PedalValues == {0, 1, 64, 128, 254, 255}
ButtonFields == {0, 1, 5, 8, 8192, 32768, 65535}
TmReports ==
    { [steering |-> st, throttle |-> p, brake |-> 255 - p, clutch |-> (3 * p) % 256,
       buttons |-> b, dpad |-> d] :
        st \in SteeringValues, p \in PedalValues, b \in ButtonFields,
        d \in {0, 3, 7, 8, 15} }

\* the call of translate on tmReport, in a build with or without overflow
\* checks
CallTranslate ==
    /\ tmReport # <<>>
    /\ translateResult.tag = "none"
    /\ \E overflow_checks \in BOOLEAN :
          translateResult' = translate_result(config.input_config, Head(tmReport),
                                              overflow_checks)
    /\ UNCHANGED <<config, mainVars, inVars, outVars, lockVars, portVars, engineVars, now,
                   tmReport, pidReport, parseResult, framed, ffb_effect>>

(***************************************************************************)
(* parse_ffb_effect, translate_effect and the framing called directly.     *)
(***************************************************************************)
\* the configurations of the output side: FFB on (unit gains, max_force 2.5)
\* and FFB off
OutputConfigs == { DefaultConfig, [DefaultConfig EXCEPT !.ffb_config.enabled = FALSE] }

\* the bytes after the type code, cut to the lengths around the minima
ParameterBytes == <<244, 1, 232, 3, 180, 0, 9>>
ParameterLengths == {0, 3, 4, 5, 6, 7}
TypeCodes == 0..12 \cup {255}

\* output reports handed to parse_ffb_effect: every type code with every
\* parameter length for the block indices 1 and 40, the reports of the
\* scenarios S4 and S5, a payload without a type code, an empty payload,
\* and the reports of EngineReports
ParserReports ==
    { [report_id |-> 1,
       data |-> <<id, code>> \o SubSeq(ParameterBytes, 1, n)] :
        id \in {1, MaxEffectId}, code \in TypeCodes, n \in ParameterLengths }
    \cup { [report_id |-> 1, data |-> <<1, 1, 0, 244, 1, 232, 3>>],
           [report_id |-> 1, data |-> <<2, 4, 0, 100, 0, 50, 0, 180, 0>>],
           [report_id |-> 1, data |-> <<1>>],
           [report_id |-> 1, data |-> <<>>] }
    \cup EngineReports

\* thrustmaster.rs initialize: the two commands it frames, vid = 0x044F
initialize_commands ==
    << [command_id |-> 1, data |-> <<1103 % 256, 1103 \div 256>>],
       [command_id |-> 2, data |-> <<1>>] >>

\* parse_ffb_effect(pidReport) and, on a descriptor, translate_effect
CallParse ==
    /\ pidReport # <<>>
    /\ parseResult.tag = "none"
    /\ LET p == parse_ffb_effect(Head(pidReport)) IN
       /\ parseResult' = p
       /\ IF p.tag = "Some"
          THEN LET t == translate_effect(config.ffb_config, active_effects, now, p.effect) IN
               /\ active_effects' = t.active_effects
               /\ iforce_commands' = t.commands
          ELSE UNCHANGED <<active_effects, iforce_commands>>
    /\ UNCHANGED <<config, mainVars, inVars, outPc, outResult, batches, ffbCalls,
                   wheelFrames, lockVars, portVars, last_update, now,
                   tmReport, translateResult, pidReport, framed, ffb_effect>>

\* the record of one call of build_iforce_packet
Framed(command) == [command |-> command, packet |-> build_iforce_packet(command)]

\* send_ffb_command frames the next command the engine returned
CallFrame ==
    /\ iforce_commands # <<>>
    /\ framed' = Append(framed, Framed(Head(iforce_commands)))
    /\ iforce_commands' = Tail(iforce_commands)
    /\ UNCHANGED <<config, mainVars, inVars, outPc, outResult, batches, ffbCalls,
                   wheelFrames, lockVars, portVars, engineVars, now,
                   tmReport, translateResult, pidReport, parseResult, ffb_effect>>

\* initialize frames its commands
CallInitialize ==
    /\ framed = <<>>
    /\ framed' = [i \in 1..Len(initialize_commands) |-> Framed(initialize_commands[i])]
    /\ UNCHANGED <<config, mainVars, inVars, outVars, lockVars, portVars, engineVars, now,
                   tmReport, translateResult, pidReport, parseResult, ffb_effect>>

(***************************************************************************)
(* FfbEngine::translate_effect and update_active_effects called directly   *)
(* with descriptors of every kind.                                         *)
(***************************************************************************)
\* FFB configurations: the default; constant_gain 0.5, global_gain 0.5 and
\* max_force 5.0; spring_gain 2.0, ramp_gain 0.5 and max_force 1.25; FFB off
EffectConfigs ==
    { [DefaultConfig EXCEPT !.ffb_config = f] :
        f \in { DefaultFfbConfig,
                [DefaultFfbConfig EXCEPT !.constant_gain = Frac(1, 2),
                                         !.global_gain = Frac(1, 2),
                                         !.max_force = Frac(5, 1)],
                [DefaultFfbConfig EXCEPT !.spring_gain = Frac(2, 1),
                                         !.ramp_gain = Frac(1, 2),
                                         !.max_force = Frac(5, 4)],
                [DefaultFfbConfig EXCEPT !.enabled = FALSE] } }

FfbEffect(id, effect_type) == [id |-> id, effect_type |-> effect_type, gain |-> 255]

\* descriptors handed to translate_effect, for the effect ids 1 and 2:
\* Constant effects that expire after 1 ms and 2 ms and one that never does,
\* Periodic effects with a magnitude below and above 32767, Condition
\* effects, and a Ramp
Descriptors ==
    { FfbEffect(1, [kind |-> "Constant", magnitude |-> 10000, duration |-> 1]),
      FfbEffect(1, [kind |-> "Constant", magnitude |-> -20000, duration |-> 0]),
      FfbEffect(2, [kind |-> "Constant", magnitude |-> 30000, duration |-> 2]),
      FfbEffect(2, [kind |-> "Periodic", magnitude |-> 100, period |-> 50, phase |-> 180,
                    waveform |-> "Sine"]),
      FfbEffect(2, [kind |-> "Periodic", magnitude |-> 40000, period |-> 20, phase |-> 0,
                    waveform |-> "Square"]),
      FfbEffect(1, [kind |-> "Condition", positive_coefficient |-> 10000,
                    negative_coefficient |-> -10000, condition_type |-> "Spring"]),
      FfbEffect(2, [kind |-> "Condition", positive_coefficient |-> 20000,
                    negative_coefficient |-> -300, condition_type |-> "Inertia"]),
      FfbEffect(2, [kind |-> "Ramp", start_magnitude |-> 10000, end_magnitude |-> -5000,
                    duration |-> 100]) }

\* one call of translate_effect
EffectTranslate ==
    /\ \E effect \in Descriptors :
          LET t == translate_effect(config.ffb_config, active_effects, now, effect) IN
          /\ ffb_effect' = <<effect>>
          /\ active_effects' = t.active_effects
          /\ iforce_commands' = t.commands
    /\ UNCHANGED <<config, mainVars, inVars, outPc, outResult, batches, ffbCalls,
                   wheelFrames, lockVars, portVars, last_update, now,
                   tmReport, translateResult, pidReport, parseResult, framed>>

(***************************************************************************)
(* Specifications.                                                         *)
(***************************************************************************)
\* the state ProtocolTranslator::new leaves (the configuration and the
\* argument of a direct call apart), with the channel ends in the given state
InitState(peers) ==
    /\ mainPc = "select"
    /\ runResult = "pending"
    /\ exitCode = "none"
    /\ inPc = "tick"
    /\ outPc = "lock"
    /\ inResult = "none"
    /\ outResult = "none"
    /\ lockOwner = "none"
    /\ lockWaiters = <<>>
    /\ input_receiver_alive = peers
    /\ output_sender_alive = peers
    /\ outQueue = <<>>
    /\ hostSent = 0
    /\ g29_report = <<>>
    /\ readSeq = <<>>
    /\ sentInput = <<>>
    /\ iforce_commands = <<>>
    /\ batches = <<>>
    /\ ffbCalls = <<>>
    /\ wheelFrames = <<>>
    /\ active_effects = EmptyMap
    /\ last_update = 0
    /\ now = 0
    /\ translateResult = [tag |-> "none"]
    /\ parseResult = [tag |-> "none"]
    /\ framed = <<>>
    /\ ffb_effect = <<>>

InitWith(peers) ==
    /\ config \in Configs
    /\ tmReport = <<>>
    /\ pidReport = <<>>
    /\ InitState(peers)

\* VirtualG29Device::create binds _input_receiver and _output_sender to
\* locals, which are dropped when create returns
Init == InitWith(FALSE)

InNext == InTick \/ InLock \/ InWake \/ InRead \/ InSend
MainNext == RunReturn \/ CtrlC \/ MainReturn \/ InCancel \/ OutCancel \/ ProcessExit

\* the `run` command as the repository builds it
Next == InNext \/ OutLock \/ OutWake \/ OutRead \/ MainNext
Spec == Init /\ [][Next]_vars

\* the tokio runtime polls every ready task, and main proceeds when it can;
\* Ctrl-C need never arrive
FairSpec ==
    /\ Spec
    /\ WF_vars(InNext)
    /\ WF_vars(OutLock \/ OutWake \/ OutRead)
    /\ WF_vars(RunReturn \/ MainReturn \/ InCancel \/ OutCancel \/ ProcessExit)

\* the loop over a virtual port whose peer channel ends are held by a
\* backend and a host that sends output reports (the port of spec 4.5)
InitHost == InitWith(TRUE)
OutNext == OutLock \/ OutWake \/ OutRead \/ OutSend
NextHost == InNext \/ OutNext \/ HostSendOutput \/ Tick \/ RunReturn
SpecHost == InitHost /\ [][NextHost]_vars
FairSpecHost ==
    /\ SpecHost
    /\ WF_vars(InNext)
    /\ WF_vars(OutNext)
    /\ WF_vars(Tick)
    /\ WF_vars(RunReturn)

\* the two flows and the host without the clock, which plays no part in
\* who holds the translator mutex
NextLock == InNext \/ OutNext \/ HostSendOutput \/ RunReturn
SpecLock == InitHost /\ [][NextLock]_vars
FairSpecLock ==
    /\ SpecLock
    /\ WF_vars(InNext)
    /\ WF_vars(OutNext)
    /\ WF_vars(RunReturn)

\* the parser and the engine driven call by call
NextEngine == EngineProcess \/ EngineUpdate \/ Tick
SpecEngine == Init /\ [][NextEngine]_vars

\* the engine driven call by call with descriptors of every kind
InitEffects ==
    /\ config \in EffectConfigs
    /\ tmReport = <<>>
    /\ pidReport = <<>>
    /\ InitState(FALSE)
NextEffects == EffectTranslate \/ EngineUpdate \/ Tick
SpecEffects == InitEffects /\ [][NextEffects]_vars

\* InputTranslator::translate driven call by call
InitTranslate ==
    /\ config \in TranslateConfigs
    /\ tmReport \in { <<r>> : r \in TmReports }
    /\ pidReport = <<>>
    /\ InitState(FALSE)

\* parse_ffb_effect, translate_effect and build_iforce_packet driven call by
\* call on a fresh engine
InitOutput ==
    /\ config \in OutputConfigs
    /\ tmReport = <<>>
    /\ pidReport \in { <<r>> : r \in ParserReports }
    /\ InitState(FALSE)
NextOutput == CallParse \/ CallFrame \/ CallInitialize
SpecOutput == InitOutput /\ [][NextOutput]_vars
SpecTranslate == InitTranslate /\ [][CallTranslate]_vars

(***************************************************************************)
(* Claims.                                                                 *)
(***************************************************************************)
Translated(reports) ==
    [i \in 1..Len(reports) |-> translate(config.input_config, reports[i])]
IsPrefix(a, b) == Len(a) <= Len(b) /\ SubSeq(b, 1, Len(a)) = a

C2_EmptyQueueIsNoError ==
    /\ outQueue = <<>> => read_output(outQueue, output_sender_alive).tag = "None"
    /\ outResult # "ProtocolError"

PerReportErrors == {"InvalidReport", "FfbError"}

\* C3: a per-report failure (a report the parser rejects with InvalidReport
\* or FfbError, a short read from the wheel) drops only that report: the flow
\* that saw it does not stop.
C3_PerReportFailureKeepsFlow ==
    /\ inResult \in PerReportErrors => inPc # "done"
    /\ outResult \in PerReportErrors => outPc # "done"

HardErrors == {"HidError", "ProtocolError"}

\* C4: when a port call of either flow fails with a hard error, the loop is
\* aborted and run() eventually returns, even when the other flow meets no
\* error.
C4_HardErrorAbortsLoop ==
    (inResult \in HardErrors \/ outResult \in HardErrors) ~> (runResult # "pending")

RunReturned == runResult \notin {"pending", "dropped"}

\* C5: in every state in which run() has returned, both flows have
\* terminated (and so perform no port I/O any more).
C5_RunReturnsAfterBothFlows ==
    RunReturned => inPc = "done" /\ outPc = "done" /\ lockOwner = "none"

\* C5 witness: run() has returned the error of a flow
C5_Witness == RunReturned /\ runResult \in HardErrors \cup PerReportErrors

\* a step in which a flow makes a port call (read_input, send_input,
\* read_output, send_ffb_command)
IoStep ==
    \/ inPc \in {"read", "send"} /\ inPc' \notin {inPc, "cancelled"}
    \/ outPc \in {"read", "send"} /\ outPc' \notin {outPc, "cancelled"}
    \/ ffbCalls' # ffbCalls

\* C6: once the shutdown signal has been handled (the ctrl_c arm of select!
\* has run), no further port call occurs.
C6_NoIoAfterShutdown == [][runResult = "dropped" => ~IoStep]_vars

\* both flows of the loop are still running
LoopRuns == inPc # "done" /\ outPc # "done"

ExpiredConstant(k) ==
    k \in DOMAIN active_effects /\ ~NotExpired(now, active_effects[k])

C9_TableWithinForty ==
    /\ Cardinality(DOMAIN active_effects) <= MaxEffectId
    /\ DOMAIN active_effects \subseteq 1..MaxEffectId

\* C9 witness: effect 40 is in the table with others, and an
\* update_active_effects call has passed the rate gate
C9_Witness ==
    /\ {1, MaxEffectId} \subseteq DOMAIN active_effects
    /\ last_update > 0

FrameClosed(f) ==
    LET n == Len(f.command.data) IN
    /\ Len(f.packet) = n + 3
    /\ f.packet[1] = n + 2
    /\ f.packet[2] = f.command.command_id
    /\ SubSeq(f.packet, 3, n + 2) = f.command.data
    /\ XorFold(0, f.packet) = 0

\* C11: every frame build_iforce_packet returns is [length, command_id,
\* payload..., checksum] with byte 0 equal to payload.len() + 2 and the XOR
\* of all its bytes, checksum included, equal to 0.
C11_FrameLengthAndChecksum == \A i \in 1..Len(framed) : FrameClosed(framed[i])

\* C11 witness: the two commands of initialize and an 8-byte Periodic
\* command of the engine have been framed
C11_Witness ==
    /\ Len(framed) = 3
    /\ Len(framed[2].command.data) = 1
    /\ framed[3].command.command_id = 66
    /\ Len(framed[3].command.data) = 8

\* parse_ffb_effect has been called on the report and nothing framed since
ParsedReport(r) == pidReport = <<r>> /\ parseResult.tag # "none" /\ framed = <<>>

\* C12: scenario S4: the report [id 0x01, payload 01 01 00 F4 01 E8 03] with
\* unit gains and max_force 2.5 yields exactly one command, id 0x41 with
\* payload [01, F4, 01, E8, 03].
C12_ScenarioS4 ==
    (/\ ParsedReport([report_id |-> 1, data |-> <<1, 1, 0, 244, 1, 232, 3>>])
     /\ config.ffb_config = DefaultFfbConfig)
        => /\ parseResult.tag = "Some"
           /\ iforce_commands = << [command_id |-> 65, data |-> <<1, 244, 1, 232, 3>>] >>

\* C13: scenario S5: the report [id 0x01, payload 02 04 00 64 00 32 00 B4 00]
\* with unit gains and max_force 2.5 yields one command, id 0x42 with payload
\* [02, 01, 64, 00, 32, 00, B4, 00].
C13_ScenarioS5 ==
    (/\ ParsedReport([report_id |-> 1, data |-> <<2, 4, 0, 100, 0, 50, 0, 180, 0>>])
     /\ config.ffb_config = DefaultFfbConfig)
        => /\ parseResult.tag = "Some"
           /\ iforce_commands =
                << [command_id |-> 66, data |-> <<2, 1, 100, 0, 50, 0, 180, 0>>] >>

\* the report has report id 0x01, an effect block index in 1..40 and a type code
Dispatched(r) ==
    r.report_id = 1 /\ Len(r.data) >= 2 /\ r.data[1] \in 1..MaxEffectId
SupportedTypes == {1} \cup 3..11

\* C14: for a dispatched report of a supported type the only length
\* requirement is the minimum of the type: 4 bytes after the type code for
\* Constant and Condition, 6 for Periodic; the report parses to a descriptor
\* when they are there and fails with InvalidReport exactly when they are not.
C14_PerTypeMinimumOnly ==
    \A r \in ParserReports :
        (ParsedReport(r) /\ Dispatched(r) /\ r.data[2] \in SupportedTypes)
            => IF Len(r.data) - 2 >= (IF r.data[2] \in 3..7 THEN 6 ELSE 4)
               THEN parseResult.tag = "Some"
               ELSE parseResult = [tag |-> "Err", err |-> "InvalidReport"]

\* C15: a dispatched report whose type code is not a supported one fails
\* with FfbError whatever the length of the rest of the payload, and leaves
\* no descriptor, command or table entry.
C15_UnsupportedTypeIsFfbError ==
    \A r \in ParserReports :
        (ParsedReport(r) /\ Dispatched(r) /\ r.data[2] \notin SupportedTypes)
            => /\ parseResult = [tag |-> "Err", err |-> "FfbError"]
               /\ iforce_commands = <<>>
               /\ active_effects = EmptyMap

\* C16: for every report the parser accepts, the first command translate_effect
\* returns (FFB enabled) carries the report's effect block index in payload
\* byte 0, the command id 0x41/0x42/0x43 of Constant/Periodic/Condition, and
\* in payload byte 1 the waveform code (0x03->2, 0x04->1, 0x05->3, 0x06->4,
\* 0x07->5) or the condition code (0x08->1, 0x09->2, 0x0A->3, 0x0B->4).
C16_IdAndCodePreserved ==
    \A r \in ParserReports :
        (ParsedReport(r) /\ parseResult.tag = "Some" /\ config.ffb_config.enabled)
            => /\ Len(iforce_commands) >= 1
               /\ iforce_commands[1].data[1] = r.data[1]
               /\ iforce_commands[1].command_id =
                     (CASE r.data[2] = 1 -> 65
                        [] r.data[2] \in 3..7 -> 66
                        [] r.data[2] \in 8..11 -> 67)
               /\ r.data[2] \in 3..7 =>
                     iforce_commands[1].data[2] =
                        (CASE r.data[2] = 3 -> 2 [] r.data[2] = 4 -> 1
                           [] r.data[2] = 5 -> 3 [] r.data[2] = 6 -> 4
                           [] r.data[2] = 7 -> 5)
               /\ r.data[2] \in 8..11 => iforce_commands[1].data[2] = r.data[2] - 7

\* C16 witness: a Square report for effect block 40 has been parsed and
\* translated to a command
C16_Witness ==
    /\ pidReport # <<>>
    /\ Head(pidReport).data = <<40, 3>> \o SubSeq(ParameterBytes, 1, 6)
    /\ parseResult.tag = "Some"
    /\ Len(iforce_commands) = 1

\* translate has been called on the report of tmReport
TranslateCalled == tmReport # <<>> /\ translateResult.tag # "none"

\* C17: translate returns a G29 report (report id 0x01, four zero padding
\* bytes) for every input report and every configuration of the type, an
\* empty Custom table and button-map bits >= 16 / >= 32 included; it never
\* aborts.
C17_TranslateAlwaysReturns ==
    TranslateCalled
        => /\ translateResult.tag = "Ok"
           /\ translateResult.report.report_id = 1
           /\ translateResult.report.unused = <<0, 0, 0, 0>>

\* C18: in every report translate returns, bits 24..31 of the button field
\* are min(dpad, 8) and bits 0..23 are the result of the button map.
C18_DpadInHighByte ==
    (TranslateCalled /\ translateResult.tag = "Ok")
        => LET input == Head(tmReport)
               buttons == translateResult.report.buttons
           IN /\ buttons \div (2 ^ 24) = Min(input.dpad, 8)
              /\ buttons % (2 ^ 24)
                    = map_buttons(config.input_config, input.buttons) % (2 ^ 24)

\* C19: virtual bit v is set in the mapped buttons if and only if the map
\* has an entry (p -> v) whose physical bit p is set in the 16-bit input;
\* stated on bits 0..23 of the report, which the D-pad does not touch.
C19_ButtonMapExact ==
    (TranslateCalled /\ translateResult.tag = "Ok")
        => LET input == Head(tmReport)
               mapping == config.input_config.button_mapping
           IN \A v \in 0..23 :
                 BitSet(translateResult.report.buttons, v)
                     <=> \E p \in DOMAIN mapping :
                             mapping[p] = v /\ BitSet(input.buttons, p)

\* C20: for every pedal raw value and every curve variant, any Custom table
\* included, the throttle, brake and clutch of the report lie in 0..1023.
C20_PedalsWithinTenBits ==
    (TranslateCalled /\ translateResult.tag = "Ok")
        => /\ translateResult.report.throttle \in 0..1023
           /\ translateResult.report.brake \in 0..1023
           /\ translateResult.report.clutch \in 0..1023

\* |r / 32767| < deadzone
InDeadzone(r, dz) == Abs(r) * dz.den < dz.num * 32767

\* C21: for every raw steering value, every deadzone in [0, 1) and every
\* multiplier, the steering of the translated report lies in 0..65535 and is
\* 0x8000 whenever |r / 32767| < deadzone.
C21_SteeringInRangeAndCentred ==
    (/\ TranslateCalled
     /\ translateResult.tag = "Ok"
     /\ config.input_config.steering_deadzone.num < config.input_config.steering_deadzone.den)
        => /\ translateResult.report.steering \in 0..65535
           /\ InDeadzone(Head(tmReport).steering, config.input_config.steering_deadzone)
                 => translateResult.report.steering = 32768

\* C21 witness: a raw value off centre but inside the deadzone has been
\* translated, with a multiplier other than 1
C21_Witness ==
    /\ TranslateCalled
    /\ translateResult.tag = "Ok"
    /\ Head(tmReport).steering = 16383
    /\ config.input_config.steering_deadzone = Frac(1, 2)
    /\ config.input_config.steering_multiplier = Frac(3, 1)
    /\ InDeadzone(16383, config.input_config.steering_deadzone)

\* C22: with deadzone 1.0 every raw steering value, both extremes included,
\* translates to the centre value 0x8000.
C22_FullDeadzoneCentres ==
    (/\ TranslateCalled
     /\ translateResult.tag = "Ok"
     /\ config.input_config.steering_deadzone = Frac(1, 1))
        => translateResult.report.steering = 32768

\* C23: when run() returned Err to the `run` command, the process exits
\* with a non-zero exit code.
C23_ErrorExitsNonZero ==
    (mainPc \in {"shutdown", "exited"} /\ runResult \in HardErrors \cup PerReportErrors)
        => exitCode # 0

\* translate_effect has returned commands for the descriptor of ffb_effect
EffectTranslated == ffb_effect # <<>> /\ iforce_commands # <<>>

Clamp16(x) == Clamp(x, -32767, 32767)

\* clamp16(clamp16(m * gain * global gain) * max_force / 2.5), each product
\* truncated to an integer
GainedAndScaled(ffb, m, gain) ==
    Clamp16(TruncDiv(Clamp16(TruncDiv(m * gain.num * ffb.global_gain.num,
                                      gain.den * ffb.global_gain.den))
                        * 2 * ffb.max_force.num,
                     5 * ffb.max_force.den))

\* C24: for every descriptor kind each emitted magnitude (Constant and
\* Periodic magnitude, Condition coefficients, Ramp start and end) is
\* clamp16(clamp16(m * per-effect gain * global gain) * max_force / 2.5) as
\* signed 16-bit little-endian; a Constant of +10000 with constant_gain 0.5,
\* global_gain 0.5 and max_force 5.0 is emitted as 88 13.
C24_GainThenForceRatio ==
    EffectTranslated =>
        LET ffb == config.ffb_config
            e == Head(ffb_effect).effect_type
            data == iforce_commands[1].data
        IN CASE e.kind = "Constant" ->
                    I16FromLe(data[2], data[3])
                        = GainedAndScaled(ffb, e.magnitude, ffb.constant_gain)
             [] e.kind = "Periodic" ->
                    I16FromLe(data[3], data[4])
                        = GainedAndScaled(ffb, e.magnitude, ffb.periodic_gain)
             [] e.kind = "Condition" ->
                    LET gain == CASE e.condition_type = "Spring" -> ffb.spring_gain
                                  [] e.condition_type = "Damper" -> ffb.damper_gain
                                  [] e.condition_type = "Inertia" -> Frac(1, 1)
                                  [] e.condition_type = "Friction" -> ffb.friction_gain
                    IN /\ I16FromLe(data[3], data[4])
                            = GainedAndScaled(ffb, e.positive_coefficient, gain)
                       /\ I16FromLe(data[5], data[6])
                            = GainedAndScaled(ffb, e.negative_coefficient, gain)
             [] e.kind = "Ramp" ->
                    /\ I16FromLe(data[2], data[3])
                            = GainedAndScaled(ffb, e.start_magnitude, ffb.ramp_gain)
                    /\ I16FromLe(data[4], data[5])
                            = GainedAndScaled(ffb, e.end_magnitude, ffb.ramp_gain)

\* the entry is a Constant with duration > 0 whose age at `instant` is at
\* least its duration
Expired(instant, active) ==
    /\ active.effect.effect_type.kind = "Constant"
    /\ active.effect.effect_type.duration > 0
    /\ instant - active.start_time >= active.effect.effect_type.duration

\* C25: a call of update_active_effects that passes the rate gate (it
\* advances last_update) removes exactly the Constant entries with duration
\* > 0 whose age is at least the duration and leaves every other entry as it
\* was.
C25_UpdateRemovesExactlyExpired ==
    [][last_update' # last_update =>
         active_effects' =
             [k \in { j \in DOMAIN active_effects : ~Expired(now, active_effects[j]) }
                 |-> active_effects[k]]]_vars

\* C25 witness: an update has passed the gate over a table holding a Ramp
\* and a Constant that never expires, both older than the update
C25_Witness ==
    /\ last_update > 0
    /\ DOMAIN active_effects = {1, 2}
    /\ active_effects[1].effect.effect_type.kind = "Constant"
    /\ active_effects[1].effect.effect_type.duration = 0
    /\ active_effects[1].start_time < last_update
    /\ active_effects[2].effect.effect_type.kind = "Ramp"
    /\ active_effects[2].start_time < last_update

\* C26: with FFB enabled, translate_effect for a descriptor with id k sets
\* entry k to the descriptor with start instant now and enabled = true,
\* replacing a previous entry for k, and leaves the other entries unchanged.
C26_InsertOrRefresh ==
    [][(EffectTranslate /\ config.ffb_config.enabled) =>
         LET effect == Head(ffb_effect') IN
         /\ DOMAIN active_effects' = DOMAIN active_effects \cup {effect.id}
         /\ active_effects'[effect.id]
                = [effect |-> effect, start_time |-> now, enabled |-> TRUE]
         /\ \A k \in DOMAIN active_effects \ {effect.id} :
                active_effects'[k] = active_effects[k]]_vars

\* C26 witness: effect 1 has just been re-sent at a later instant than the
\* entry of effect 2, which is still the one stored at instant 0
C26_Witness ==
    /\ config.ffb_config.enabled
    /\ ffb_effect # <<>>
    /\ Head(ffb_effect).id = 1
    /\ DOMAIN active_effects = {1, 2}
    /\ active_effects[1].effect = Head(ffb_effect)
    /\ active_effects[1].start_time = now
    /\ now > 0
    /\ active_effects[2].start_time = 0

\* C29: for a Periodic effect with magnitude m in 0..65535, unit gains and
\* max_force 2.5, the emitted magnitude bytes decode (signed 16-bit
\* little-endian) to a non-negative value, and to m when m <= 32767.
C29_PeriodicMagnitudeNonNegative ==
    (/\ EffectTranslated
     /\ Head(ffb_effect).effect_type.kind = "Periodic"
     /\ config.ffb_config = DefaultFfbConfig)
        => LET m == Head(ffb_effect).effect_type.magnitude
               emitted == I16FromLe(iforce_commands[1].data[3], iforce_commands[1].data[4])
           IN /\ emitted >= 0
              /\ m <= 32767 => emitted = m

\* C27: no flow holds the exclusion over the wheel for longer than one port
\* I/O call: it is released between a flow's read_input and its send_input,
\* and before each send_ffb_command of a batch.
C27_LockHeldForOneCallOnly ==
    /\ inPc = "send" => lockOwner # "input"
    /\ outPc = "send" => lockOwner # "output"

\* C28: after create has succeeded send_input returns Ok for every report the
\* backend accepts: the input flow is never ended by the error of the
\* monitoring channel after it has published a report.
C28_SendInputNeverFails ==
    sentInput # <<>> => inResult # "ProtocolError"

====
